---- MODULE Spec2Model ----
(***************************************************************************)
(* Cinema analytics dashboard (src/js/cinema-dashboard.js): the fallback   *)
(* loader loadData, the bootstrap initDashboard with its error view, and   *)
(* the section renderers with their normalisation of the JSON payload,     *)
(* the tab strip; and of the site script (src/unnamed/part_000) the easter *)
(* egg and the mobile menu.                                                *)
(*                                                                         *)
(* JavaScript values are tagged records; a mapping (JS object) is the      *)
(* ordered sequence of its <<key, value>> entries, in Object.entries order.*)
(***************************************************************************)
EXTENDS Integers, Sequences, FiniteSets, TLC

VARIABLES
    pc,         \* position of initDashboard / loadData
    i,          \* index into DATA_PATHS of the candidate being attempted
    fetchLog,   \* paths handed to fetch(), in call order
    inflight,   \* indices of fetches issued and not yet settled
    res,        \* the Response the current fetch resolved with
    outcomes,   \* history: one record per finished attempt
    loadState,  \* "pending" | "returned" | "threw" : how loadData ended
    data,       \* const data of initDashboard (the parsed payload)
    error,      \* the exception caught by initDashboard's catch
    dom,        \* ids of the elements present in the host page
    display,    \* style.display of the loading / content / error views
    errorHtml,  \* what showError wrote into the error element
    html,       \* innerHTML of the section containers
    charts,     \* the chart registry (const charts)
    ran,        \* history: section renderers invoked by the current call
    threwIn,    \* history: the renderer whose exception reached the catch
    instances,  \* history: chart instances created / destroyed per widget
    reruns,     \* history: calls of initDashboard after the first
    prev,       \* history: what the previous call of initDashboard left
    uncaught,   \* errors that escaped the evaluation of the script
    genreStats, \* innerHTML of the genre-stats element
    tabButtons, \* the .tab-btn elements carrying the class active
    tabContents,\* the .tab-content elements carrying the class active
    konamiIndex,\* let konamiIndex of the site script
    body,       \* document.body.style
    styles,     \* the style elements activateEasterEgg appended to the head
    timers,     \* pending setTimeout callbacks, in the order they were set
    pressed,    \* history: the keys of the keydown events so far
    fired,      \* history: the keydown counts at which the egg was activated
    navMenu,    \* whether #nav-menu carries the class active
    hamburger,  \* whether #hamburger carries the class active
    clicks      \* history: the click events dispatched so far

\* the state of the tab strip, of the easter egg and of the mobile menu
tabs == <<tabButtons, tabContents>>
egg == <<konamiIndex, styles, timers, pressed, fired>>
menu == <<navMenu, hamburger>>

\* everything on the page besides the dashboard's own views
page == <<uncaught, genreStats, tabs, egg, menu, body, clicks>>

vars == <<pc, i, fetchLog, inflight, res, outcomes, loadState, data, error,
          dom, display, errorHtml, html, charts, ran, threwIn, instances,
          reruns, prev, page>>

-----------------------------------------------------------------------------
(* JavaScript values *)

Undef == [t |-> "undefined"]
Null == [t |-> "null"]
Num(n) == [t |-> "num", n |-> n]
Str(s) == [t |-> "str", s |-> s]
Obj(e) == [t |-> "obj", e |-> e]
Arr(a) == [t |-> "arr", a |-> a]
EmptyObj == Obj(<<>>)

\* v == null (loose): null or undefined; reading a property of such a value
\* raises a TypeError
IsNullish(v) == v.t \in {"undefined", "null"}

\* ToBoolean, as used by ||, &&, ! and if
Truthy(v) ==
    CASE v.t \in {"undefined", "null"} -> FALSE
      [] v.t = "num" -> v.n # 0
      [] v.t = "str" -> v.s # ""
      [] OTHER -> TRUE

\* a || b
Or(a, b) == IF Truthy(a) THEN a ELSE b

\* a && b
And(a, b) == IF Truthy(a) THEN b ELSE a

\* a ?? b
Coalesce(a, b) == IF IsNullish(a) THEN b ELSE a

\* typeof v === "object" (true of null, objects and arrays)
TypeofObject(v) == v.t \in {"null", "obj", "arr"}

\* the strings that occur as values in the modelled payloads, with the
\* number Number(s) gives for each (fin = FALSE: NaN)
StringToNumber(s) ==
    CASE s = "" -> [fin |-> TRUE, n |-> 0]
      [] s = "0" -> [fin |-> TRUE, n |-> 0]
      [] s = "1" -> [fin |-> TRUE, n |-> 1]
      [] s = "2" -> [fin |-> TRUE, n |-> 2]
      [] s = "3" -> [fin |-> TRUE, n |-> 3]
      [] s = "4" -> [fin |-> TRUE, n |-> 4]
      [] s = "5" -> [fin |-> TRUE, n |-> 5]
      [] s = "6" -> [fin |-> TRUE, n |-> 6]
      [] s = "7" -> [fin |-> TRUE, n |-> 7]
      [] s = "8" -> [fin |-> TRUE, n |-> 8]
      [] s = "9" -> [fin |-> TRUE, n |-> 9]
      [] s = "10" -> [fin |-> TRUE, n |-> 10]
      [] s = "11" -> [fin |-> TRUE, n |-> 11]
      [] s = "13" -> [fin |-> TRUE, n |-> 13]
      [] s = "12" -> [fin |-> TRUE, n |-> 12]
      [] s = "1980" -> [fin |-> TRUE, n |-> 1980]
      [] s = "1990" -> [fin |-> TRUE, n |-> 1990]
      [] s = "2000" -> [fin |-> TRUE, n |-> 2000]
      [] OTHER -> [fin |-> FALSE, n |-> 0]

\* Number(v) / unary + / the coercion inside isFinite, > and -
ToNumber(v) ==
    CASE v.t = "undefined" -> [fin |-> FALSE, n |-> 0]
      [] v.t = "null" -> [fin |-> TRUE, n |-> 0]
      [] v.t = "num" -> [fin |-> TRUE, n |-> v.n]
      [] v.t = "str" -> StringToNumber(v.s)
      [] v.t = "obj" -> [fin |-> FALSE, n |-> 0]
      [] v.t = "arr" ->
           IF Len(v.a) = 0 THEN [fin |-> TRUE, n |-> 0]
           ELSE IF Len(v.a) = 1 /\ v.a[1].t = "num"
                THEN [fin |-> TRUE, n |-> v.a[1].n]
                ELSE IF Len(v.a) = 1 /\ v.a[1].t = "str"
                     THEN StringToNumber(v.a[1].s)
                     ELSE IF Len(v.a) = 1 /\ IsNullish(v.a[1])
                          THEN [fin |-> TRUE, n |-> 0]
                          ELSE [fin |-> FALSE, n |-> 0]

\* isFinite(v): the global isFinite coerces its argument first
IsFiniteJS(v) == ToNumber(v).fin

\* a > 0 with a coerced; NaN > 0 is false
GreaterThanZero(v) == ToNumber(v).fin /\ ToNumber(v).n > 0

\* the key "0", "1", ... of the k-th element of an array
IndexKey(k) ==
    CASE k = 1 -> "0" [] k = 2 -> "1" [] k = 3 -> "2" [] k = 4 -> "3"
      [] k = 5 -> "4" [] k = 6 -> "5" [] k = 7 -> "6" [] k = 8 -> "7"
      [] k = 9 -> "8" [] k = 10 -> "9" [] k = 11 -> "10" [] k = 12 -> "11"
      [] k = 13 -> "12" [] k = 14 -> "13" [] OTHER -> "n"

\* the characters of the strings that occur where a section or a count is
\* expected
Chars(s) ==
    CASE s = "bad" -> <<"b", "a", "d">>
      [] s = "12" -> <<"1", "2">>
      [] OTHER -> <<>>

\* Object.entries(v) for a value that is not null/undefined: the own
\* enumerable entries of an object, an array or a string; a number has none
ObjectEntries(v) ==
    CASE v.t = "obj" -> v.e
      [] v.t = "arr" -> [k \in 1..Len(v.a) |-> <<IndexKey(k), v.a[k]>>]
      [] v.t = "str" ->
           [k \in 1..Len(Chars(v.s)) |-> <<IndexKey(k), Str(Chars(v.s)[k])>>]
      [] OTHER -> <<>>

\* v[k] / v.k for a value that is not null/undefined
Get(v, k) ==
    LET e == ObjectEntries(v)
    IN IF \E j \in 1..Len(e) : e[j][1] = k
       THEN e[CHOOSE j \in 1..Len(e) : e[j][1] = k][2]
       ELSE Undef

\* v?.k
GetOpt(v, k) == IF IsNullish(v) THEN Undef ELSE Get(v, k)

-----------------------------------------------------------------------------
(* Sequences *)

Range(s) == {s[k] : k \in 1..Len(s)}

\* arr.slice(0, n)
Slice(s, n) == SubSeq(s, 1, IF Len(s) < n THEN Len(s) ELSE n)

\* arr.filter(keep)
Filter(s, keep(_)) == SelectSeq(s, keep)

\* arr.sort(cmp), which is stable (ES2019): before(a, b) is cmp(a, b) < 0.
\* The element at position k lands after every element that precedes it and
\* after every earlier element it ties with.
SortBy(s, before(_, _)) ==
    LET rank(k) ==
            1 + Cardinality({j \in 1..Len(s) :
                    \/ before(s[j], s[k])
                    \/ (~before(s[k], s[j]) /\ j < k)})
    IN [r \in 1..Len(s) |-> s[CHOOSE k \in 1..Len(s) : rank(k) = r]]

-----------------------------------------------------------------------------
(* Text produced by formatting *)

\* x.toLocaleString() of a finite number: the decimal text of n
LocaleString(n) == [t |-> "text", n |-> n]

\* Number(h).toFixed(1)
ToFixed1(x) == [t |-> "fixed1", fin |-> x.fin, n |-> x.n]

\* `${d}s`
DecadeLabel(d) == [t |-> "label", fin |-> d.fin, n |-> d.n, suffix |-> "s"]

\* numFormat(n)
numFormat(v) ==
    IF IsNullish(v) THEN Str("0")
    ELSE IF ToNumber(v).fin THEN LocaleString(ToNumber(v).n) ELSE Str("0")

\* toNumber(v): the number 0, or the locale text of the number
toNumber(v) ==
    IF IsNullish(v) \/ ~ToNumber(v).fin THEN Num(0)
    ELSE LocaleString(ToNumber(v).n)

\* initials(name): first letters of the first and the last word, upper-cased
initials(name) ==
    CASE name = "John Smith" -> "JS"
      [] name = "Jane Doe" -> "JD"
      [] name = "Unknown" -> "UU"
      [] name = "unknown" -> "UU"
      [] name = "Ann" -> "AA"
      [] name = "Bob" -> "BB"
      [] name = "Agnes Varda" -> "AV"
      [] name = "Akira Kurosawa" -> "AK"
      [] name = "Ava DuVernay" -> "AD"
      [] name = "Billy Wilder" -> "BW"
      [] name = "Bong Joon-ho" -> "BJ"
      [] name = "Chantal Akerman" -> "CA"
      [] name = "Claire Denis" -> "CD"
      [] name = "Greta Gerwig" -> "GG"
      [] name = "Ida Lupino" -> "IL"
      [] name = "Jane Campion" -> "JC"
      [] name = "Mira Nair" -> "MN"
      [] name = "Orson Welles" -> "OW"
      [] name = "Satyajit Ray" -> "SR"
      [] name = "Spike Lee" -> "SL"
      [] name = "Wong Kar-wai" -> "WK"
      [] name = "0" -> "00"
      [] name \in {"1", "10", "11", "12", "13"} -> "11"
      [] name = "2" -> "22"
      [] name = "3" -> "33"
      [] name = "4" -> "44"
      [] name = "5" -> "55"
      [] name = "6" -> "66"
      [] name = "7" -> "77"
      [] name = "8" -> "88"
      [] name = "9" -> "99"
      [] OTHER -> ""

\* s.toLowerCase(), for the names of the modelled payloads
ToLowerCase(s) ==
    CASE s = "Unknown" -> "unknown"
      [] s = "John Smith" -> "john smith"
      [] s = "Jane Doe" -> "jane doe"
      [] s = "Ann" -> "ann"
      [] s = "Bob" -> "bob"
      [] OTHER -> s

\* escapeHTML(s): & < > " ' replaced by their entities
escapeHTML(s) ==
    CASE s = "Sci-Fi & Fantasy" -> "Sci-Fi &amp; Fantasy"
      [] OTHER -> s

-----------------------------------------------------------------------------
(* JSON documents *)

\* a response body that is not JSON text
NotJson == [t |-> "garbage"]

\* a key that is a canonical array index ("1980"): such keys come first, in
\* ascending numeric order, in every JS object
IsIndexKey(k) == k # "" /\ StringToNumber(k).fin

\* the own-property order of an object built from these entries, in this
\* insertion order
OrderKeys(e) ==
    LET isIdx(x) == IsIndexKey(x[1])
        notIdx(x) == ~IsIndexKey(x[1])
        lower(a, b) == StringToNumber(a[1]).n < StringToNumber(b[1]).n
    IN SortBy(Filter(e, isIdx), lower) \o Filter(e, notIdx)

\* JSON.parse of a document: members keep the text's order except for index
\* keys
RECURSIVE JsonParse(_)
JsonParse(doc) ==
    CASE doc.t = "obj" ->
           Obj(OrderKeys([k \in 1..Len(doc.e) |->
                    <<doc.e[k][1], JsonParse(doc.e[k][2])>>]))
      [] doc.t = "arr" -> Arr([k \in 1..Len(doc.a) |-> JsonParse(doc.a[k])])
      [] OTHER -> doc

\* Object.fromEntries(entries)
FromEntries(e) == Obj(OrderKeys(e))

\* cloneObj(o): JSON.parse(JSON.stringify(o || {}))
cloneObj(o) == JsonParse(Or(o, EmptyObj))

\* Object.keys(v), Object.values(v)
ObjectKeys(v) == [k \in 1..Len(ObjectEntries(v)) |-> ObjectEntries(v)[k][1]]
ObjectValues(v) == [k \in 1..Len(ObjectEntries(v)) |-> ObjectEntries(v)[k][2]]

-----------------------------------------------------------------------------
(* The host page and the widgets *)

\* element ids the dashboard looks up with getElementById
ElementIds ==
    {"loading", "content", "error", "stats-container", "genreChart",
     "decadeChart", "directors-container", "actors-container",
     "ml-insights-container", "runtimeChart"}

\* a container whose innerHTML the dashboard has not written
Untouched == [kind |-> "untouched"]

\* a registry slot that was never assigned (charts.genre === undefined)
NoChart == [type |-> "none"]

\* result of a renderer: whether it raised, and what it left behind
Returned(v) == [threw |-> FALSE, val |-> v, made |-> FALSE]
Threw(v) == [threw |-> TRUE, val |-> v, made |-> FALSE]

\* result of a chart renderer that reached new Chart(...): v is the instance
\* it stored in its registry slot
Created(v) == [threw |-> FALSE, val |-> v, made |-> TRUE]

-----------------------------------------------------------------------------
(* Renderers *)

\* x && Object.keys(x).length
KeyCountIf(x) == IF Truthy(x) THEN Num(Len(ObjectKeys(x))) ELSE x

\* renderStats(data): the KPI block written into stats-container; old is the
\* container's content before the call
renderStats(d, dm, old) ==
    IF IsNullish(d) THEN Threw(old)
    ELSE
    LET s == Or(Get(d, "basic_stats"), EmptyObj)
        total == Coalesce(Get(s, "total_movies"), Num(0))
        hours == Coalesce(Get(s, "total_runtime_hours"), Num(0))
        yr == Get(s, "year_range")
        span == Or(IF Truthy(yr) THEN Get(yr, "span") ELSE yr, Num(0))
        genresBlock == Or(Get(d, "genres"), EmptyObj)
        totalGenres ==
            Coalesce(Get(genresBlock, "total_unique_genres"),
              Coalesce(KeyCountIf(Get(genresBlock, "top_10_genres")),
                Coalesce(KeyCountIf(Get(genresBlock, "genre_distribution")),
                  Coalesce(KeyCountIf(Get(genresBlock, "distribution")),
                           Num(0)))))
        totalEnd == IF ToNumber(total).fin THEN ToNumber(total).n ELSE 0
        hoursEnd == IF ToNumber(hours).fin THEN ToNumber(hours).n ELSE 0
    IN IF "stats-container" \notin dm THEN Threw(old)
       ELSE Returned([kind |-> "kpis",
                      total |-> LocaleString(totalEnd),
                      hours |-> LocaleString(hoursEnd),
                      span |-> IF Truthy(span) THEN numFormat(span)
                               ELSE Str("N/A"),
                      genres |-> numFormat(totalGenres)])

\* a pickTop that takes the first n entries without sorting them
pickTopFirstN(obj, n) ==
    IF ~Truthy(obj) \/ ~TypeofObject(obj) THEN Null
    ELSE FromEntries(Slice(ObjectEntries(obj), n))

\* a pickTop whose sort leaves entries of equal count in reverse key order
pickTopTiesReversed(obj, n) ==
    IF ~Truthy(obj) \/ ~TypeofObject(obj) THEN Null
    ELSE LET e == ObjectEntries(obj)
             reversed == [k \in 1..Len(e) |-> e[Len(e) + 1 - k]]
             higher(a, b) ==
                 /\ ToNumber(a[2]).fin /\ ToNumber(b[2]).fin
                 /\ ToNumber(a[2]).n > ToNumber(b[2]).n
         IN FromEntries(Slice(SortBy(reversed, higher), n))

\* pickTop(obj, n)
pickTop(obj, n) ==
    IF ~Truthy(obj) \/ ~TypeofObject(obj) THEN Null
    ELSE LET higher(a, b) ==
                 /\ ToNumber(a[2]).fin /\ ToNumber(b[2]).fin
                 /\ ToNumber(a[2]).n > ToNumber(b[2]).n
         IN FromEntries(Slice(SortBy(ObjectEntries(obj), higher), n))

\* new Chart(ctx, {type, data: {labels, datasets: [{data}]}})
NewChart(type, labels, values) ==
    [type |-> type, labels |-> labels, data |-> values]

\* createGenreChart(genreData): the registry slot charts.genre afterwards
createGenreChart(genreData, dm, old) ==
    IF "genreChart" \notin dm THEN Returned(old)
    ELSE IF IsNullish(genreData) THEN Threw(old)
    ELSE
    LET top10 == cloneObj(
                   Or(Get(genreData, "top_10_genres"),
                     Or(pickTop(Get(genreData, "genre_distribution"), 10),
                       Or(pickTop(Get(genreData, "distribution"), 10),
                          EmptyObj))))
        labels == ObjectKeys(top10)
        values == ObjectValues(top10)
    IN IF Len(labels) = 0 THEN Returned(old)
       ELSE Created(NewChart("bar", labels, values))

\* createDecadeChart(decades): the registry slot charts.decade afterwards
createDecadeChart(decades, dm, old) ==
    IF "decadeChart" \notin dm \/ ~Truthy(decades) THEN Returned(old)
    ELSE
    LET raw == ObjectEntries(decades)
        pair(x) == <<StringToNumber(x[1]),
                     Coalesce(IF Truthy(x[2]) THEN Get(x[2], "count")
                              ELSE x[2], x[2])>>
        mapped == [k \in 1..Len(raw) |-> pair(raw[k])]
        finite(x) == IsFiniteJS(x[2])
        earlier(a, b) == a[1].fin /\ b[1].fin /\ a[1].n < b[1].n
        entries == SortBy(Filter(mapped, finite), earlier)
    IN IF Len(entries) = 0 THEN Returned(old)
       ELSE Created(NewChart("line",
               [k \in 1..Len(entries) |-> DecadeLabel(entries[k][1])],
               [k \in 1..Len(entries) |-> entries[k][2]]))

\* a renderRuntimeChart that asks for bins only
renderRuntimeChartBinsOnly(hist, dm, old) ==
    IF \/ "runtimeChart" \notin dm
       \/ ~Truthy(hist)
       \/ ~Truthy(Get(hist, "bins"))
    THEN Returned(old)
    ELSE Created(NewChart("bar", Get(hist, "bins"), Get(hist, "counts")))

\* renderRuntimeChart(hist): the registry slot charts.runtime afterwards
renderRuntimeChart(hist, dm, old) ==
    IF \/ "runtimeChart" \notin dm
       \/ ~Truthy(hist)
       \/ ~Truthy(Get(hist, "bins"))
       \/ ~Truthy(Get(hist, "counts"))
    THEN Returned(old)
    ELSE Created(NewChart("bar", Get(hist, "bins"), Get(hist, "counts")))

\* some element of the sequence is null or undefined
AnyNullish(vals) == \E k \in 1..Len(vals) : IsNullish(vals[k])

\* a comparator with its operands swapped: ascending order
LowerCount(x, y) ==
    LET cx == ToNumber(Or(x, Num(0)))
        cy == ToNumber(Or(y, Num(0)))
    IN cx.fin /\ cy.fin /\ cx.n < cy.n

\* (b.count || 0) - (a.count || 0) < 0 : a sorts before b
HigherCount(x, y) ==
    LET cx == ToNumber(Or(x, Num(0)))
        cy == ToNumber(Or(y, Num(0)))
    IN cx.fin /\ cy.fin /\ cx.n > cy.n

\* the row renderDirectors builds for one entry [name, v] with v not null
DirectorRow(x) ==
    IF x[2].t = "num"
    THEN [name |-> Str(x[1]), movie_count |-> x[2],
          total_runtime_hours |-> Undef]
    ELSE [name |-> Str(x[1]),
          movie_count |-> Coalesce(Get(x[2], "movie_count"), Num(0)),
          total_runtime_hours |-> Get(x[2], "total_runtime_hours")]

\* rows.filter(d => d.name && d.movie_count > 0)
DirectorKept(d) == Truthy(d.name) /\ GreaterThanZero(d.movie_count)

\* the person card of one director row
DirectorCard(d) ==
    [avatar |-> initials(d.name.s),
     name |-> d.name.s,
     movies |-> numFormat(d.movie_count),
     hours |-> IF Truthy(d.total_runtime_hours)
               THEN ToFixed1(ToNumber(d.total_runtime_hours))
               ELSE Str("")]

\* renderDirectors(directorsData): directors-container afterwards
renderDirectors(directorsArg, dm, old) ==
    LET directorsData == IF directorsArg.t = "undefined" THEN EmptyObj
                         ELSE directorsArg
    IN
    IF "directors-container" \notin dm THEN Returned(old)
    ELSE IF directorsData.t = "null" THEN Threw(old)
    ELSE
    LET raw == ObjectEntries(directorsData)
    IN IF AnyNullish(ObjectValues(directorsData)) THEN Threw(old)
       ELSE
       LET mapped == [k \in 1..Len(raw) |-> DirectorRow(raw[k])]
           before(a, b) == HigherCount(a.movie_count, b.movie_count)
           rows == Slice(SortBy(Filter(mapped, DirectorKept), before), 12)
       IN IF Len(rows) = 0 THEN Returned([kind |-> "placeholder"])
          ELSE Returned([kind |-> "cards",
                         cards |-> [k \in 1..Len(rows) |->
                                        DirectorCard(rows[k])]])

\* the record renderActors builds for one element of a top_actors array
ActorFromItem(a) ==
    [name |-> Or(Get(a, "name"), Get(a, "0")),
     appearances |-> Coalesce(Get(a, "movie_count"),
                       Coalesce(Get(a, "appearances"), Get(a, "1"))),
     birth_year |-> Coalesce(Get(a, "birth_year"), Null)]

\* the record renderActors builds for one entry [name, v] of a top_actors
\* mapping
ActorFromEntry(x) ==
    [name |-> Str(x[1]),
     appearances |-> Coalesce(Get(x[2], "appearances"),
                       Coalesce(Get(x[2], "movie_count"), Num(0))),
     birth_year |-> Coalesce(Get(x[2], "birth_year"), Null)]

\* a.name.toLowerCase() raises for a truthy name that is no string
LowerCaseRaises(a) == Truthy(a.name) /\ a.name.t # "str"

\* the filter that hides "Unknown" and zeroes
ActorKept(a) ==
    /\ Truthy(a.name)
    /\ ToLowerCase(a.name.s) # "unknown"
    /\ GreaterThanZero(Or(a.appearances, Num(0)))

\* the person card of one actor
ActorCard(a) ==
    [avatar |-> initials(a.name.s),
     name |-> a.name.s,
     movies |-> numFormat(a.appearances),
     born |-> IF Truthy(a.birth_year) THEN a.birth_year ELSE Str("")]

\* renderActors(actorsData): actors-container afterwards
renderActors(actorsArg, dm, old) ==
    LET actorsData == IF actorsArg.t = "undefined" THEN EmptyObj
                      ELSE actorsArg
    IN
    IF "actors-container" \notin dm THEN Returned(old)
    ELSE IF actorsData.t = "null" THEN Threw(old)
    ELSE
    LET top == Get(actorsData, "top_actors")
        isArray == top.t = "arr"
        isMapping == ~isArray /\ Truthy(top) /\ TypeofObject(top)
        raw == ObjectEntries(top)
    IN IF (isArray \/ isMapping) /\ AnyNullish(ObjectValues(top))
       THEN Threw(old)
       ELSE
       LET list == IF isArray
                   THEN [k \in 1..Len(top.a) |-> ActorFromItem(top.a[k])]
                   ELSE IF isMapping
                        THEN [k \in 1..Len(raw) |-> ActorFromEntry(raw[k])]
                        ELSE <<>>
       IN IF \E k \in 1..Len(list) : LowerCaseRaises(list[k])
          THEN Threw(old)
          ELSE
          LET kept == Filter(list, ActorKept)
              before(a, b) == HigherCount(a.appearances, b.appearances)
              top12 == Slice(SortBy(kept, before), 12)
          IN IF Len(kept) = 0 THEN Returned([kind |-> "placeholder"])
             ELSE Returned([kind |-> "cards",
                            cards |-> [k \in 1..Len(top12) |->
                                           ActorCard(top12[k])]])

\* the highlight card of one cluster entry [label, info] with info not null
ClusterCard(x) ==
    [label |-> escapeHTML(x[1]),
     size |-> toNumber(Get(x[2], "size")),
     percentage |-> toNumber(Get(x[2], "percentage"))]

\* renderMLInsights(ml): ml-insights-container afterwards
renderMLInsights(mlArg, dm, old) ==
    LET ml == IF mlArg.t = "undefined" THEN EmptyObj ELSE mlArg
    IN
    IF "ml-insights-container" \notin dm THEN Returned(old)
    ELSE IF ml.t = "null" THEN Threw(old)
    ELSE
    LET clusters == Or(Get(ml, "taste_clusters"),
                      Or(Get(ml, "genre_clusters"), EmptyObj))
        entries == ObjectEntries(clusters)
        shown == Slice(entries, 6)
    IN IF Len(entries) = 0 THEN Returned([kind |-> "placeholder"])
       ELSE IF \E k \in 1..Len(shown) : IsNullish(shown[k][2])
            THEN Threw(old)
            ELSE Returned([kind |-> "cards",
                           cards |-> [k \in 1..Len(shown) |->
                                          ClusterCard(shown[k])]])

-----------------------------------------------------------------------------
(* Loader and bootstrap *)

DATA_PATHS ==
    <<"../data/data/cinema_insights.json", "../data/cinema_insights.json",
      "data/data/cinema_insights.json", "data/cinema_insights.json",
      "cinema_insights.json", "./cinema_insights.json">>

NoError == [name |-> "none", message |-> ""]

\* new Error("Could not load cinema_insights.json from any path")
LoadError ==
    [name |-> "Error",
     message |-> "Could not load cinema_insights.json from any path"]

\* the TypeError raised by reading a property of null or undefined
TypeErr == [name |-> "TypeError", message |-> "Cannot read properties"]

\* no Response in scope (const res is scoped to one loop iteration)
NoResponse == [ok |-> FALSE, body |-> [t |-> "none"]]

\* a loader that reads the body of any response, successful or not
AcceptAnyResponse(r) == TRUE

\* if (res.ok)
ResponseAccepted(r) == r.ok

\* a loop that gives up one candidate early
HasNextButLast(k) == k < Len(DATA_PATHS) - 1

\* for (const path of DATA_PATHS): is there a candidate after the k-th
HasNext(k) == k < Len(DATA_PATHS)

\* a loop that retries the candidate that just failed
RetrySameIndex(k) == k

\* for (const path of DATA_PATHS): the candidate after the k-th
NextIndex(k) == k + 1

\* an error view that leaves out the first candidate
ErrorPathsButFirst == Tail(DATA_PATHS)

\* the paths showError lists under "Tried these paths:"
ErrorPaths == DATA_PATHS

\* the attempt on candidate i has finished: the record kept of it. good: the
\* response was a success and its body was JSON; doc: that body
Attempt(good, doc) ==
    [path |-> DATA_PATHS[i], good |-> good,
     doc |-> IF good THEN doc ELSE NotJson]

\* fetch(path, {cache: "no-cache"}) is called for candidate k
IssueFetch(k, settled) ==
    /\ i' = k
    /\ fetchLog' = Append(fetchLog, DATA_PATHS[k])
    /\ inflight' = settled \cup {k}
    /\ pc' = "fetch"

\* the attempt on candidate i failed: the loop goes on to the next candidate,
\* or falls out and throws, which initDashboard catches
Advance(settled) ==
    /\ res' = NoResponse
    /\ IF HasNext(i)
       THEN /\ IssueFetch(NextIndex(i), settled)
            /\ UNCHANGED <<loadState, error>>
       ELSE /\ pc' = "catch"
            /\ loadState' = "threw"
            /\ error' = LoadError
            /\ inflight' = settled
            /\ UNCHANGED <<i, fetchLog>>

rendering ==
    <<dom, display, errorHtml, html, charts, ran, threwIn, instances, reruns,
      prev, page>>

\* labels at the top level of the script: the identifier is local to
\* createGenreChart, so it resolves to nothing (ReferenceError) unless the
\* page has an element of that id, whose slice is not a function (TypeError)
TopLevelError(d) ==
    IF "labels" \in d THEN "TypeError" ELSE "ReferenceError"

\* const chips: one chip for each of the first six of the labels, carrying
\* the genre and its count
chips(labels, values) ==
    [k \in 1..(IF Len(labels) < 6 THEN Len(labels) ELSE 6) |->
       [name |-> labels[k], count |-> values[k]]]

\* the browser evaluates the script: the listeners are registered, the
\* statement at the top level after createGenreChart throws, and the
\* assignment to the genre-stats element after it is not reached
Script ==
    /\ pc = "script"
    /\ pc' = "ready"
    /\ uncaught' = Append(uncaught, TopLevelError(dom))
    /\ UNCHANGED genreStats
    /\ UNCHANGED <<i, fetchLog, inflight, res, outcomes, loadState, data,
                   error>>
    /\ UNCHANGED <<dom, display, errorHtml, html, charts, ran, threwIn,
                   instances, reruns, prev>>
    /\ UNCHANGED <<tabs, egg, menu, body, clicks>>

\* DOMContentLoaded: initDashboard calls loadData, which issues the first
\* fetch and suspends
DOMContentLoaded ==
    /\ pc = "ready"
    /\ IssueFetch(1, inflight)
    /\ UNCHANGED <<res, outcomes, loadState, data, error>>
    /\ UNCHANGED rendering

\* the fetch rejects (network error): caught, logged, next candidate
FetchRejects ==
    /\ pc = "fetch"
    /\ outcomes' = Append(outcomes, Attempt(FALSE, NotJson))
    /\ Advance(inflight \ {i})
    /\ UNCHANGED data
    /\ UNCHANGED rendering

-----------------------------------------------------------------------------
(* Documents the server may hold at a candidate path *)

Sections ==
    <<"basic_stats", "genres", "decades", "directors", "graph_data",
      "ml_insights", "actors">>

\* a well-formed value of each section
GoodSection(name) ==
    CASE name = "basic_stats" ->
           Obj(<< <<"total_movies", Num(5)>>,
                  <<"total_runtime_hours", Num(9)>>,
                  <<"year_range", Obj(<< <<"span", Num(3)>> >>)>> >>)
      [] name = "genres" ->
           Obj(<< <<"top_10_genres",
                    Obj(<< <<"Drama", Num(3)>>, <<"Comedy", Num(2)>> >>)>> >>)
      [] name = "decades" ->
           Obj(<< <<"1990", Obj(<< <<"count", Num(12)>> >>)>>,
                  <<"1980", Num(7)>> >>)
      [] name = "directors" ->
           Obj(<< <<"John Smith", Num(3)>>,
                  <<"Ann", Obj(<< <<"movie_count", Num(5)>>,
                                  <<"total_runtime_hours", Num(9)>> >>)>> >>)
      [] name = "graph_data" ->
           Obj(<< <<"runtime_histogram",
                    Obj(<< <<"bins", Arr(<<Str("0-60"), Str("60-120")>>)>>,
                           <<"counts", Arr(<<Num(1), Num(4)>>)>> >>)>> >>)
      [] name = "ml_insights" ->
           Obj(<< <<"taste_clusters",
                    Obj(<< <<"Sci-Fi & Fantasy",
                             Obj(<< <<"size", Num(4)>>,
                                    <<"percentage", Num(80)>> >>)>> >>)>> >>)
      [] name = "actors" ->
           Obj(<< <<"top_actors",
                    Arr(<< Obj(<< <<"name", Str("Bob")>>,
                                  <<"movie_count", Num(4)>>,
                                  <<"birth_year", Num(1970)>> >>),
                           Obj(<< <<"name", Str("Unknown")>>,
                                  <<"movie_count", Num(6)>> >>) >>)>> >>)

\* values that match no accepted shape of a section
WrongShapes ==
    {Null, Num(5), Str("bad"), Arr(<<>>), Arr(<<Null>>),
     Obj(<< <<"Jane Doe", Null>> >>),
     Obj(<< <<"top_actors", Arr(<<Null>>)>> >>),
     Obj(<< <<"top_actors", Obj(<< <<"Bob", Null>> >>)>> >>),
     Obj(<< <<"top_actors", Arr(<<Obj(<< <<"name", Num(5)>> >>)>>)>> >>),
     Obj(<< <<"taste_clusters", Obj(<< <<"Noir", Null>> >>)>> >>),
     Obj(<< <<"genre_clusters", Num(5)>> >>),
     Obj(<< <<"runtime_histogram",
              Obj(<< <<"bins", Arr(<<Str("0-60")>>)>> >>)>> >>),
     Obj(<< <<"runtime_histogram", Null>> >>)}

\* the document holding the sections of `present` (well formed), with the
\* section `name` replaced by `v`
DocWith(present, name, v) ==
    LET member(k) == IF Sections[k] = name THEN <<name, v>>
                     ELSE <<Sections[k], GoodSection(Sections[k])>>
        all == [k \in 1..Len(Sections) |-> member(k)]
        in(x) == x[1] \in present \/ x[1] = name
    IN Obj(Filter(all, in))

DocOf(present) == DocWith(present, "", Undef)

FullDocument == DocOf(Range(Sections))

\* every subset of the sections present and well formed
PresenceDocs == {DocOf(S) : S \in SUBSET Range(Sections)}

\* one section of a wrong shape, the others well formed
ShapeDocs ==
    {DocWith(Range(Sections), n, v) : n \in Range(Sections), v \in WrongShapes}

Documents == PresenceDocs \cup ShapeDocs

\* what res.json() yields for them
PresencePayloads == {JsonParse(d) : d \in PresenceDocs}
ShapePayloads == {JsonParse(d) : d \in ShapeDocs}

\* number of page elements that may be missing from the host page
MaxMissing == 1

Pages ==
    {ElementIds \ M : M \in {X \in SUBSET ElementIds :
                                   Cardinality(X) <= MaxMissing}}

\* the bodies a response may carry on the page dm
Bodies(dm) ==
    IF dm = ElementIds THEN Documents \cup {NotJson}
    ELSE {FullDocument, DocOf({}), NotJson}

Responses(dm) ==
    {[ok |-> TRUE, body |-> b] : b \in Bodies(dm)}
      \cup {[ok |-> FALSE, body |-> b] : b \in {FullDocument, NotJson}}

-----------------------------------------------------------------------------
(* Loader, continued *)

\* the fetch resolves with a Response: a successful one is read as JSON,
\* any other is skipped without a log line
FetchResolves ==
    /\ pc = "fetch"
    /\ \E r \in Responses(dom) :
         IF ResponseAccepted(r)
         THEN /\ res' = r
              /\ pc' = "json"
              /\ inflight' = inflight \ {i}
              /\ UNCHANGED <<i, fetchLog, outcomes, loadState, error>>
         ELSE /\ outcomes' = Append(outcomes, Attempt(FALSE, r.body))
              /\ Advance(inflight \ {i})
    /\ UNCHANGED data
    /\ UNCHANGED rendering

\* res.json() settles: the parsed document is returned to initDashboard, or
\* the rejection is caught inside the loop and the next candidate is tried
JsonSettles ==
    /\ pc = "json"
    /\ IF res.body = NotJson
       THEN /\ outcomes' = Append(outcomes, Attempt(FALSE, res.body))
            /\ Advance(inflight)
            /\ UNCHANGED data
       ELSE /\ outcomes' = Append(outcomes, Attempt(res.ok, res.body))
            /\ data' = JsonParse(res.body)
            /\ loadState' = "returned"
            /\ pc' = "show"
            /\ res' = NoResponse
            /\ UNCHANGED <<i, fetchLog, inflight, error>>
    /\ UNCHANGED rendering

-----------------------------------------------------------------------------
(* initDashboard after loadData has returned: one synchronous pass *)

loading == <<i, fetchLog, inflight, res, outcomes, loadState, data>>

\* a statement of the pass finished: go on, or enter the catch block
Continue(name, threw, next) ==
    IF threw
    THEN /\ pc' = "catch"
         /\ error' = TypeErr
         /\ threwIn' = name
    ELSE /\ pc' = next
         /\ UNCHANGED <<error, threwIn>>

\* a registry that forgets to tear the old instance down
destroyNothing(old) == 0

\* charts.x?.destroy?.(): the number of instances torn down, none when the
\* registry slot was never assigned
destroy(old) == IF old = NoChart THEN 0 ELSE 1

\* a widget that creates the new instance first and tears the old one down
\* afterwards
CreatedBeforeDestroy(c, old) ==
    LET alive == c.created + 1 - c.destroyed
    IN [created |-> c.created + 1, destroyed |-> c.destroyed + destroy(old),
        peak |-> IF alive > c.peak THEN alive ELSE c.peak]

\* the instance counts of a widget after charts.x?.destroy?.() followed by
\* charts.x = new Chart(...); peak is the largest number of undestroyed
\* instances the widget has had at any moment
Recreated(c, old) ==
    LET gone == c.destroyed + destroy(old)
        alive == c.created + 1 - gone
    IN [created |-> c.created + 1, destroyed |-> gone,
        peak |-> IF alive > c.peak THEN alive ELSE c.peak]

\* the instance counts after the chart renderer of `widget` gave result r
Lifecycle(widget, r) ==
    IF r.made
    THEN [instances EXCEPT ![widget] = Recreated(@, charts[widget])]
    ELSE instances

\* "Show content": hide the loading view, show the content view
ShowContent ==
    /\ pc = "show"
    /\ display' =
         IF "loading" \notin dom THEN display
         ELSE IF "content" \notin dom
              THEN [display EXCEPT !.loading = "none"]
              ELSE [display EXCEPT !.loading = "none", !.content = "block"]
    /\ Continue("show", "loading" \notin dom \/ "content" \notin dom, "stats")
    /\ UNCHANGED <<dom, errorHtml, html, charts, ran, instances, reruns, prev, page>>
    /\ UNCHANGED loading

Stats ==
    /\ pc = "stats"
    /\ LET r == renderStats(data, dom, html.stats)
       IN /\ html' = [html EXCEPT !.stats = r.val]
          /\ Continue("stats", r.threw, "genre")
    /\ ran' = ran \cup {"stats"}
    /\ UNCHANGED <<dom, display, errorHtml, charts, instances, reruns, prev, page>>
    /\ UNCHANGED loading

\* data.genres passed on without the {} default
GenresArgNoDefault(d) == Get(d, "genres")

\* data.genres || {}
GenresArg(d) == Or(Get(d, "genres"), EmptyObj)

GenreChart ==
    /\ pc = "genre"
    /\ LET r == createGenreChart(GenresArg(data), dom, charts.genre)
       IN /\ charts' = [charts EXCEPT !.genre = r.val]
          /\ instances' = Lifecycle("genre", r)
          /\ Continue("genre", r.threw, "decade")
    /\ ran' = ran \cup {"genre"}
    /\ UNCHANGED <<dom, display, errorHtml, html, reruns, prev, page>>
    /\ UNCHANGED loading

\* data.decades || {}
DecadesArg(d) == Or(Get(d, "decades"), EmptyObj)

DecadeChart ==
    /\ pc = "decade"
    /\ LET r == createDecadeChart(DecadesArg(data), dom, charts.decade)
       IN /\ charts' = [charts EXCEPT !.decade = r.val]
          /\ instances' = Lifecycle("decade", r)
          /\ Continue("decade", r.threw, "directors")
    /\ ran' = ran \cup {"decade"}
    /\ UNCHANGED <<dom, display, errorHtml, html, reruns, prev, page>>
    /\ UNCHANGED loading

\* data.directors || {}
DirectorsArg(d) == Or(Get(d, "directors"), EmptyObj)

\* the payload with its directors mapping put in descending count order
DirectorsSortedInPlace(d) ==
    LET before(a, b) ==
            HigherCount(DirectorRow(a).movie_count, DirectorRow(b).movie_count)
        sorted(v) == IF v.t = "obj" /\ ~AnyNullish(ObjectValues(v))
                     THEN Obj(SortBy(v.e, before)) ELSE v
    IN Obj([k \in 1..Len(d.e) |->
              IF d.e[k][1] = "directors"
              THEN <<d.e[k][1], sorted(d.e[k][2])>>
              ELSE d.e[k]])

\* the payload after renderDirectors: rows is the new array that
\* Object.entries(directorsData).map(...) returns, filter and slice return
\* new arrays too, so rows.sort(...) reorders nothing of the payload
AfterDirectors(d) == d

Directors ==
    /\ pc = "directors"
    /\ LET r == renderDirectors(DirectorsArg(data), dom, html.directors)
       IN /\ html' = [html EXCEPT !.directors = r.val]
          /\ Continue("directors", r.threw, "runtime")
    /\ ran' = ran \cup {"directors"}
    /\ data' = AfterDirectors(data)
    /\ UNCHANGED <<dom, display, errorHtml, charts, instances, reruns, prev, page>>
    /\ UNCHANGED <<i, fetchLog, inflight, res, outcomes, loadState>>

\* data.graph_data?.runtime_histogram
RuntimeArg(d) == GetOpt(Get(d, "graph_data"), "runtime_histogram")

RuntimeChart ==
    /\ pc = "runtime"
    /\ LET r == renderRuntimeChart(RuntimeArg(data), dom, charts.runtime)
       IN /\ charts' = [charts EXCEPT !.runtime = r.val]
          /\ instances' = Lifecycle("runtime", r)
          /\ Continue("runtime", r.threw, "ml")
    /\ ran' = ran \cup {"runtime"}
    /\ UNCHANGED <<dom, display, errorHtml, html, reruns, prev, page>>
    /\ UNCHANGED loading

\* if (data.ml_insights) renderMLInsights(data.ml_insights)
MLInsights ==
    /\ pc = "ml"
    /\ IF Truthy(Get(data, "ml_insights"))
       THEN LET r == renderMLInsights(Get(data, "ml_insights"), dom, html.ml)
            IN /\ html' = [html EXCEPT !.ml = r.val]
               /\ Continue("ml", r.threw, "actors")
               /\ ran' = ran \cup {"ml"}
       ELSE /\ pc' = "actors"
            /\ UNCHANGED <<html, error, threwIn, ran>>
    /\ UNCHANGED <<dom, display, errorHtml, charts, instances, reruns, prev, page>>
    /\ UNCHANGED loading

\* if (data.actors) renderActors(data.actors)
Actors ==
    /\ pc = "actors"
    /\ IF Truthy(Get(data, "actors"))
       THEN LET r == renderActors(Get(data, "actors"), dom, html.actors)
            IN /\ html' = [html EXCEPT !.actors = r.val]
               /\ Continue("actors", r.threw, "done")
               /\ ran' = ran \cup {"actors"}
       ELSE /\ pc' = "done"
            /\ UNCHANGED <<html, error, threwIn, ran>>
    /\ UNCHANGED <<dom, display, errorHtml, charts, instances, reruns, prev, page>>
    /\ UNCHANGED loading

\* catch (error) { showError(error.message) }: an exception inside showError
\* leaves initDashboard's promise rejected
ShowError ==
    /\ pc = "catch"
    /\ display' =
         IF "loading" \notin dom THEN display
         ELSE IF "error" \notin dom
              THEN [display EXCEPT !.loading = "none"]
              ELSE [display EXCEPT !.loading = "none", !.error = "block"]
    /\ errorHtml' =
         IF "loading" \in dom /\ "error" \in dom
         THEN [kind |-> "error-message", message |-> error.message,
               paths |-> ErrorPaths]
         ELSE errorHtml
    /\ pc' = IF "loading" \in dom /\ "error" \in dom THEN "done"
             ELSE "rejected"
    /\ UNCHANGED <<dom, html, charts, ran, threwIn, error, instances, reruns,
                   prev, page>>
    /\ UNCHANGED loading

-----------------------------------------------------------------------------
(* The dashboard on a page: load, then render or report *)

NoStyle == [loading |-> "", content |-> "", error |-> ""]
NoHtml == [stats |-> Untouched, directors |-> Untouched, ml |-> Untouched,
           actors |-> Untouched]
NoCharts == [genre |-> NoChart, decade |-> NoChart, runtime |-> NoChart]

\* no chart instance was ever created
NoInstances ==
    LET none == [created |-> 0, destroyed |-> 0, peak |-> 0]
    IN [genre |-> none, decade |-> none, runtime |-> none]

\* what a call of initDashboard found and left on the page
Snapshot ==
    [data |-> data, display |-> display, errorHtml |-> errorHtml,
     html |-> html, charts |-> charts, instances |-> instances]

\* the page before initDashboard was first called
Blank ==
    [data |-> Undef, display |-> NoStyle, errorHtml |-> Untouched,
     html |-> NoHtml, charts |-> NoCharts, instances |-> NoInstances]

\* document.body.style of a page that sets no inline style
NoBody ==
    [background |-> "", backgroundSize |-> "", animation |-> "",
     overflow |-> ""]

\* nothing was clicked or typed, the menu is closed
Quiet ==
    /\ konamiIndex = 0
    /\ body = NoBody
    /\ styles = {}
    /\ timers = <<>>
    /\ pressed = <<>>
    /\ fired = {}
    /\ navMenu = FALSE
    /\ hamburger = FALSE
    /\ clicks = <<>>

\* the page as the browser is about to evaluate the dashboard script
Evaluating ==
    /\ pc = "script"
    /\ i = 0
    /\ fetchLog = <<>>
    /\ inflight = {}
    /\ res = NoResponse
    /\ outcomes = <<>>
    /\ loadState = "pending"
    /\ data = Undef
    /\ error = NoError
    /\ dom \in Pages
    /\ display = NoStyle
    /\ errorHtml = Untouched
    /\ html = NoHtml
    /\ charts = NoCharts
    /\ ran = {}
    /\ threwIn = "none"
    /\ instances = NoInstances
    /\ reruns = 0
    /\ prev = Blank
    /\ uncaught = <<>>
    /\ genreStats = Untouched
    /\ Quiet

\* ... with a markup that marks no tab active
Init ==
    /\ Evaluating
    /\ tabButtons = {}
    /\ tabContents = {}

Pass ==
    \/ ShowContent
    \/ Stats
    \/ GenreChart
    \/ DecadeChart
    \/ Directors
    \/ RuntimeChart
    \/ MLInsights
    \/ Actors

Next ==
    \/ Script
    \/ DOMContentLoaded
    \/ FetchRejects
    \/ FetchResolves
    \/ JsonSettles
    \/ Pass
    \/ ShowError

Spec == Init /\ [][Next]_vars

\* the browser dispatches DOMContentLoaded, the transport settles every fetch
\* and every body read (at the latest by its own timeout), and the event loop
\* then runs the continuation
FairSpec ==
    /\ Spec
    /\ WF_vars(Script)
    /\ WF_vars(DOMContentLoaded)
    /\ WF_vars(FetchRejects \/ FetchResolves)
    /\ WF_vars(JsonSettles)

-----------------------------------------------------------------------------
(* Properties of the loader *)

AllFailed(n) == \A j \in 1..n : ~outcomes[j].good

\* C1: when the first N candidates fail and candidate N+1 succeeds, loadData
\* returns the parsed content of candidate N+1, and no fetch is ever issued
\* for a candidate after N+1; and loadData returns in no other case.
LoaderReturnsFirstSuccess ==
    LET n == Len(outcomes)
    IN /\ loadState = "returned" =>
            /\ n >= 1
            /\ outcomes[n].good
            /\ outcomes[n].path = DATA_PATHS[n]
            /\ AllFailed(n - 1)
            /\ data = JsonParse(outcomes[n].doc)
            /\ fetchLog = SubSeq(DATA_PATHS, 1, n)
            /\ inflight = {}
       /\ (\E j \in 1..n : outcomes[j].good) => loadState = "returned"

\* two candidates failed, the third succeeded, and the pass is over
ThirdCandidateLoaded ==
    /\ loadState = "returned"
    /\ Len(outcomes) = 3
    /\ data = JsonParse(FullDocument)
    /\ pc = "done"

OneAttemptAtATime ==
    /\ Cardinality(inflight) <= 1
    /\ inflight # {} => (pc = "fetch" /\ inflight = {Len(fetchLog)})
    /\ Len(fetchLog) <= Len(DATA_PATHS)
    /\ fetchLog = SubSeq(DATA_PATHS, 1, Len(fetchLog))
    /\ Len(outcomes) <= Len(fetchLog)
    /\ Len(fetchLog) <= Len(outcomes) + 1
    /\ \A j \in 1..(Len(fetchLog) - 1) : ~outcomes[j].good

\* C3: candidates are fetched strictly in list order, one at a time: the
\* fetch for candidate k+1 starts only after the attempt on candidate k has
\* finished in failure, at most one fetch is in flight, no candidate is
\* fetched twice, and the call ends (returns or throws).
LoaderSequential == []OneAttemptAtATime /\ <>(loadState # "pending")

\* the fourth candidate is being fetched after three failures
FourthFetchInFlight ==
    /\ pc = "fetch"
    /\ inflight = {4}
    /\ Len(outcomes) = 3

-----------------------------------------------------------------------------
(* Properties of the bootstrap *)

\* initDashboard has finished: its promise is fulfilled or rejected
Ended == pc \in {"done", "rejected"}

\* the section renderers initDashboard runs for the payload d
WouldRun(d) ==
    {"stats", "genre", "decade", "directors", "runtime"}
      \cup (IF Truthy(Get(d, "ml_insights")) THEN {"ml"} ELSE {})
      \cup (IF Truthy(Get(d, "actors")) THEN {"actors"} ELSE {})

\* C4: on total load failure, on a page that has the loading and the error
\* view, initDashboard ends with the loading view hidden and the error view
\* visible and listing every path of DATA_PATHS in order; the content view
\* is never shown.
TotalFailureShowsErrorView ==
    (loadState = "threw" /\ {"loading", "error"} \subseteq dom) =>
        /\ display.content # "block"
        /\ pc \in {"catch", "done"}
        /\ pc = "done" =>
             /\ display.loading = "none"
             /\ display.error = "block"
             /\ errorHtml.kind = "error-message"
             /\ errorHtml.paths = DATA_PATHS
             /\ errorHtml.message = LoadError.message

\* every candidate failed and showError has run on the complete page
ErrorViewShown ==
    /\ loadState = "threw"
    /\ dom = ElementIds
    /\ pc = "done"
    /\ display.error = "block"

\* C5 as stated: when one section's renderer raises, every other section
\* renderer that initDashboard would run for the payload still runs.
RenderersIsolated ==
    (Ended /\ loadState = "returned"
       /\ threwIn \in {"stats", "genre", "decade", "directors", "runtime",
                       "ml", "actors"})
      => WouldRun(data) \subseteq ran

\* the sections present in a payload of PresenceDocs
Present(d) == Range(ObjectKeys(d))

\* what initDashboard leaves behind for a section that is present and well
\* formed, and for one that is absent
SectionRendered(name) ==
    CASE name = "basic_stats" -> html.stats.kind = "kpis"
                                   /\ html.stats.total = LocaleString(5)
      [] name = "genres" -> charts.genre.type = "bar"
      [] name = "decades" -> charts.decade.type = "line"
      [] name = "directors" -> html.directors.kind = "cards"
      [] name = "graph_data" -> charts.runtime.type = "bar"
      [] name = "ml_insights" -> html.ml.kind = "cards"
      [] name = "actors" -> html.actors.kind = "cards"

SectionSkipped(name) ==
    CASE name = "basic_stats" -> html.stats.kind = "kpis"
                                   /\ html.stats.total = LocaleString(0)
      [] name = "genres" -> charts.genre = NoChart
      [] name = "decades" -> charts.decade = NoChart
      [] name = "directors" -> html.directors.kind = "placeholder"
      [] name = "graph_data" -> charts.runtime = NoChart
      [] name = "ml_insights" -> html.ml = Untouched
      [] name = "actors" -> html.actors = Untouched

MissingElementSkipped ==
    (dom # ElementIds /\ data \in {Undef, JsonParse(FullDocument)}) =>
        /\ threwIn = "none"
        /\ pc # "rejected"
        /\ (pc = "done" /\ loadState = "returned") => ran = WouldRun(data)

\* C8 as stated: a section that is present but matches none of the accepted
\* shapes is omitted by its renderer without an exception being raised.
WrongShapeOmitted ==
    (dom = ElementIds /\ loadState = "returned"
       /\ data \in ShapePayloads) =>
        /\ threwIn = "none"
        /\ pc \notin {"catch", "rejected"}

-----------------------------------------------------------------------------
(* The render pass on one loaded document *)

\* loadData has just returned the document doc, served by the first
\* candidate, on the complete page
Loaded(doc) ==
    /\ pc = "show"
    /\ i = 1
    /\ fetchLog = <<DATA_PATHS[1]>>
    /\ inflight = {}
    /\ res = NoResponse
    /\ outcomes = <<[path |-> DATA_PATHS[1], good |-> TRUE, doc |-> doc]>>
    /\ loadState = "returned"
    /\ data = JsonParse(doc)
    /\ error = NoError
    /\ dom = ElementIds
    /\ display = NoStyle
    /\ errorHtml = Untouched
    /\ html = NoHtml
    /\ charts = NoCharts
    /\ ran = {}
    /\ threwIn = "none"
    /\ instances = NoInstances
    /\ reruns = 0
    /\ prev = Blank
    /\ uncaught = <<TopLevelError(ElementIds)>>
    /\ genreStats = Untouched
    /\ tabButtons = {}
    /\ tabContents = {}
    /\ Quiet

\* the JSON members <<key, value>> with distinct keys, at most n of them, in
\* every order
Members(keys, values, n) ==
    UNION {{m \in [1..k -> keys \X values] :
              \A a, b \in 1..k : a # b => m[a][1] # m[b][1]} : k \in 0..n}

\* most entries in a name-to-count mapping
MaxPersons == 3

PersonNames == {"Unknown", "unknown", "Jane Doe", "John Smith"}
PersonCounts == {Num(0), Num(3), Num(5)}

\* a document whose directors and whose top_actors are the same mapping from
\* name to count
PersonsDoc(m) ==
    Obj(<< <<"directors", Obj(m)>>,
           <<"actors", Obj(<< <<"top_actors", Obj(m)>> >>)>> >>)

InitPersons ==
    \E m \in Members(PersonNames, PersonCounts, MaxPersons) :
        Loaded(PersonsDoc(m))

SpecPersons == InitPersons /\ [][Pass]_vars

\* most entries in a decades mapping
MaxDecades == 3

DecadeKeys == {"1980", "1990", "2000"}
DecadeValues ==
    {Num(7), Num(12), Obj(<< <<"count", Num(12)>> >>), Str("bad"), Null,
     EmptyObj}

InitDecades ==
    \E m \in Members(DecadeKeys, DecadeValues, MaxDecades) :
        Loaded(Obj(<< <<"decades", Obj(m)>> >>))

SpecDecades == InitDecades /\ [][Pass]_vars

\* most genres in a full distribution
MaxGenres == 11

GenreNames ==
    <<"Drama", "Comedy", "Action", "Thriller", "Horror", "Romance", "Sci-Fi",
      "Western", "Musical", "War", "Crime", "Noir", "Family">>

\* the two field names createGenreChart reads a full distribution from
GenreFields == {"genre_distribution", "distribution"}

\* the count of the k-th genre: distinct counts for fold = 13, ties for a
\* smaller fold
GenreCount(k, stride, shift, fold) == ((stride * k + shift) % 13) % fold

\* the distribution of the first n genres, in the order of GenreNames
Distribution(n, stride, shift, fold) ==
    [k \in 1..n |-> <<GenreNames[k], Num(GenreCount(k, stride, shift, fold))>>]

Distributions ==
    {Distribution(n, stride, shift, fold) :
        n \in 0..MaxGenres, stride \in {1, 2, 5, 7, 11, 12},
        shift \in {0, 3, 6, 9}, fold \in {2, 3, 13}}

InitGenres ==
    \E m \in Distributions, f \in GenreFields :
        Loaded(Obj(<< <<"genres", Obj(<< <<f, Obj(m)>> >>)>> >>))

SpecGenres == InitGenres /\ [][Pass]_vars

\* most persons in a directors or top_actors section
MaxCast == 13

CastNames ==
    <<"Agnes Varda", "Akira Kurosawa", "Ava DuVernay", "Billy Wilder",
      "Bong Joon-ho", "Chantal Akerman", "Claire Denis", "Greta Gerwig",
      "Ida Lupino", "Jane Campion", "Mira Nair", "Orson Welles",
      "Satyajit Ray", "Spike Lee", "Wong Kar-wai">>

\* the count of the k-th person: distinct for fold = 17, with ties and zeroes
\* for a smaller fold
CastCount(k, stride, shift, fold) == ((stride * k + shift) % 17) % fold

\* one person section of n persons in each accepted shape: a mapping from
\* name to count, a mapping from name to record, a sequence of records
CastSection(shape, n, stride, shift, fold) ==
    LET count(k) == Num(CastCount(k, stride, shift, fold))
        record(k) == Obj(<< <<"name", Str(CastNames[k])>>,
                            <<"movie_count", count(k)>> >>)
    IN CASE shape = "counts" ->
              Obj([k \in 1..n |-> <<CastNames[k], count(k)>>])
         [] shape = "records" ->
              Obj([k \in 1..n |-> <<CastNames[k], record(k)>>])
         [] shape = "sequence" -> Arr([k \in 1..n |-> record(k)])

CastSections ==
    {CastSection(shape, n, stride, shift, fold) :
        shape \in {"counts", "records", "sequence"}, n \in 0..MaxCast,
        stride \in {1, 3, 5}, shift \in {0, 2}, fold \in {4, 17}}

\* a document whose directors and whose top_actors are the same section
InitCast ==
    \E c \in CastSections :
        Loaded(Obj(<< <<"directors", c>>,
                      <<"actors", Obj(<< <<"top_actors", c>> >>)>> >>))

SpecCast == InitCast /\ [][Pass]_vars

\* most clusters in a cluster mapping
MaxClusters == 7

ClusterLabels ==
    <<"Noir", "Sci-Fi & Fantasy", "Heist", "Road Movie", "Musical", "Western",
      "Slasher", "Mumblecore">>

\* a cluster mapping of n clusters; the k-th holds base + k movies and a
\* percentage of 45k - 50: below 0 for the first, above 100 from the fourth
ClusterMapping(n, base) ==
    Obj([k \in 1..n |->
           <<ClusterLabels[k],
             Obj(<< <<"size", Num(base + k)>>,
                    <<"percentage", Num(45 * k - 50)>> >>)>>])

\* the ml_insights sections: each of the two field names absent or holding a
\* mapping of 0..MaxClusters clusters
ClusterSections ==
    LET field(name, n, base) ==
            IF n < 0 THEN <<>> ELSE << <<name, ClusterMapping(n, base)>> >>
    IN {Obj(field("taste_clusters", a, 0) \o field("genre_clusters", b, 100)) :
          a \in -1..MaxClusters, b \in -1..MaxClusters}

InitClusters ==
    \/ Loaded(EmptyObj)
    \/ \E c \in ClusterSections : Loaded(Obj(<< <<"ml_insights", c>> >>))

SpecClusters == InitClusters /\ [][Pass]_vars

\* the three shapes createGenreChart accepts, in the order it tries them
GenreShapes == <<"top_10_genres", "genre_distribution", "distribution">>

\* a non-empty mapping for each shape, each with genres of its own
GenreShapeFilled(name) ==
    CASE name = "top_10_genres" ->
           Obj(<< <<"Drama", Num(3)>>, <<"Comedy", Num(2)>> >>)
      [] name = "genre_distribution" -> Obj(<< <<"Action", Num(5)>> >>)
      [] name = "distribution" ->
           Obj(<< <<"Horror", Num(1)>>, <<"War", Num(4)>> >>)

\* the genres sections: each shape absent, empty or filled
GenreShapeSections ==
    LET value(name, how) == IF how = "empty" THEN EmptyObj
                            ELSE GenreShapeFilled(name)
        field(k, how) == IF how = "absent" THEN <<>>
                         ELSE << <<GenreShapes[k], value(GenreShapes[k], how)>> >>
    IN {Obj(field(1, a) \o field(2, b) \o field(3, c)) :
          a \in {"absent", "empty", "filled"},
          b \in {"absent", "empty", "filled"},
          c \in {"absent", "empty", "filled"}}

InitGenreShapes ==
    \E g \in GenreShapeSections : Loaded(Obj(<< <<"genres", g>> >>))

SpecGenreShapes == InitGenreShapes /\ [][Pass]_vars

-----------------------------------------------------------------------------
(* Properties of the normalisers *)

\* the (name, count text) pairs of the cards in a container
ShownPersons(c) ==
    IF c.kind = "cards"
    THEN {<<c.cards[k].name, c.cards[k].movies>> : k \in 1..Len(c.cards)}
    ELSE {}

\* the entries of a name-to-count mapping with a positive count and a name
\* other than "unknown" in any letter case
ExpectedPersons(m) ==
    {<<x[1], LocaleString(x[2].n)>> :
        x \in {y \in Range(ObjectEntries(m)) :
                 y[2].n > 0 /\ ToLowerCase(y[1]) # "unknown"}}

\* C9 as stated: for directors and for actors alike, a mapping from name to
\* count is normalised to exactly the entries with a positive count and a
\* name other than "unknown" (in any letter case), each with its count.
PersonListNormalized ==
    /\ "directors" \in ran =>
         ShownPersons(html.directors)
           = ExpectedPersons(Get(data, "directors"))
    /\ "actors" \in ran =>
         ShownPersons(html.actors)
           = ExpectedPersons(Get(Get(data, "actors"), "top_actors"))

\* the count of a decade entry that is a number or an object with a numeric
\* count
IsCount(v) == v.t = "num" \/ (v.t = "obj" /\ Get(v, "count").t = "num")
CountOf(v) == IF v.t = "num" THEN v ELSE Get(v, "count")

\* the (decade, count) pairs of a decades mapping, ascending by decade
ExpectedDecades(m) ==
    LET counted(x) == IsCount(x[2])
        earlier(a, b) == StringToNumber(a[1]).n < StringToNumber(b[1]).n
        kept == SortBy(Filter(ObjectEntries(m), counted), earlier)
    IN [k \in 1..Len(kept) |->
          <<StringToNumber(kept[k][1]).n, CountOf(kept[k][2])>>]

\* the (decade, count) pairs a decade chart plots
PlottedDecades(c) ==
    IF c = NoChart THEN <<>>
    ELSE [k \in 1..Len(c.labels) |-> <<c.labels[k].n, c.data[k]>>]

\* C10 as stated: decade normalisation takes each value as a bare number or
\* as an object with a count, and yields the (decade, count) pairs ascending
\* by decade, every count a finite number; entries whose value is not a
\* finite number (a non-numeric string, null, an object without a numeric
\* count) are discarded.
DecadesNormalized ==
    "decade" \in ran =>
        /\ PlottedDecades(charts.decade)
             = ExpectedDecades(Get(data, "decades"))
        /\ \A k \in 1..Len(PlottedDecades(charts.decade)) :
             PlottedDecades(charts.decade)[k][2].t = "num"

-----------------------------------------------------------------------------
(* initDashboard called again on the same page *)

\* calls of initDashboard after the first
MaxReruns == 2

\* runtime histograms: bins and counts each absent, empty or filled, and a
\* second filled histogram
Histograms ==
    LET field(name, v) == IF v = Undef THEN <<>> ELSE << <<name, v>> >>
    IN {Obj(field("bins", b) \o field("counts", c)) :
          b \in {Undef, Arr(<<>>), Arr(<<Str("0-60"), Str("60-120")>>)},
          c \in {Undef, Arr(<<>>), Arr(<<Num(1), Num(4)>>)}}
       \cup {Obj(<< <<"bins", Arr(<<Str("0-90"), Str("90-180")>>)>>,
                    <<"counts", Arr(<<Num(2), Num(3)>>)>> >>)}

\* the documents a call may load: every histogram beside well-formed other
\* sections, no graph_data, no section at all, and a directors section that
\* makes renderDirectors raise
RerenderDocs ==
    {DocWith(Range(Sections), "graph_data",
             Obj(<< <<"runtime_histogram", h>> >>)) : h \in Histograms}
      \cup {DocOf(Range(Sections) \ {"graph_data"}), DocOf({}),
             DocWith(Range(Sections), "directors",
                     Obj(<< <<"Jane Doe", Null>> >>))}

\* a further call of initDashboard, taken up where its loadData has returned
\* the document the first candidate serves
initDashboardAgain ==
    /\ pc = "done"
    /\ reruns < MaxReruns
    /\ \E doc \in RerenderDocs :
         /\ data' = JsonParse(doc)
         /\ outcomes' = Append(outcomes, [path |-> DATA_PATHS[1],
                                          good |-> TRUE, doc |-> doc])
    /\ fetchLog' = Append(fetchLog, DATA_PATHS[1])
    /\ pc' = "show"
    /\ reruns' = reruns + 1
    /\ prev' = Snapshot
    /\ ran' = {}
    /\ threwIn' = "none"
    /\ error' = NoError
    /\ UNCHANGED <<i, inflight, res, loadState, dom, display, errorHtml, html,
                   charts, instances>>
    /\ UNCHANGED page

InitRerender == \E doc \in RerenderDocs : Loaded(doc)

NextRerender ==
    \/ Pass
    \/ ShowError
    \/ initDashboardAgain

SpecRerender == InitRerender /\ [][NextRerender]_vars

-----------------------------------------------------------------------------
(* The site script (src/unnamed/part_000): the easter egg *)

konamiCode ==
    <<"ArrowUp", "ArrowUp", "ArrowDown", "ArrowDown", "ArrowLeft",
      "ArrowRight", "ArrowLeft", "ArrowRight", "b", "a">>

\* activateEasterEgg(), creating the style element style: originalBg is what
\* the body's background is at this moment, and the timer's callback keeps it
activateEasterEgg(style) ==
    LET originalBg == body.background
        rainbow ==
          "linear-gradient(45deg, #ff0000, #ff7f00, #ffff00, #00ff00, #0000ff, #4b0082, #9400d3)"
    IN /\ body' = [body EXCEPT !.background = rainbow,
                               !.backgroundSize = "400% 400%",
                               !.animation = "rainbow 3s ease infinite"]
       /\ styles' = styles \cup {style}
       /\ timers' = Append(timers, [originalBg |-> originalBg,
                                    style |-> style])

\* the dashboard is left alone by the handlers of the site script
SiteOnly ==
    /\ UNCHANGED <<pc, i, fetchLog, inflight, res, outcomes, loadState, data,
                   error>>
    /\ UNCHANGED <<dom, display, errorHtml, html, charts, ran, threwIn,
                   instances, reruns, prev>>
    /\ UNCHANGED <<uncaught, genreStats, tabs>>

\* the keydown listener, for an event whose key is key
keydown(key) ==
    /\ pressed' = Append(pressed, key)
    /\ IF key = konamiCode[konamiIndex + 1]
       THEN IF konamiIndex + 1 = Len(konamiCode)
            THEN /\ activateEasterEgg(Len(pressed) + 1)
                 /\ fired' = fired \cup {Len(pressed) + 1}
                 /\ konamiIndex' = 0
            ELSE /\ konamiIndex' = konamiIndex + 1
                 /\ UNCHANGED <<body, styles, timers, fired>>
       ELSE /\ konamiIndex' = 0
            /\ UNCHANGED <<body, styles, timers, fired>>
    /\ UNCHANGED <<menu, clicks>>
    /\ SiteOnly

\* the callback of the oldest pending timer runs (all delays are 5000 ms,
\* so the timers fire in the order they were set)
TimerFires ==
    /\ timers # <<>>
    /\ body' = [body EXCEPT !.background = Head(timers).originalBg,
                            !.animation = ""]
    /\ styles' = styles \ {Head(timers).style}
    /\ timers' = Tail(timers)
    /\ UNCHANGED <<konamiIndex, pressed, fired, menu, clicks>>
    /\ SiteOnly

\* What the visitor types: some keys (every sequence over ArrowUp and x of
\* at most MaxPrefix keys, or the code broken off after its first four
\* keys), then the code, and possibly the code again
MaxPrefix == 2

Typings ==
    LET prefixes == UNION {[1..n -> {"ArrowUp", "x"}] : n \in 0..MaxPrefix}
                      \cup {SubSeq(konamiCode, 1, 4)}
    IN {p \o konamiCode \o s : p \in prefixes, s \in {<<>>, konamiCode}}

\* a keydown event: the next key of one of the typings
Type ==
    \E key \in Range(konamiCode) \cup {"x"} :
        /\ \E t \in Typings :
             /\ Len(pressed) < Len(t)
             /\ SubSeq(t, 1, Len(pressed) + 1) = Append(pressed, key)
        /\ keydown(key)

\* the site script has been evaluated on the complete page
InitSite == Init /\ dom = ElementIds

SpecKonami == InitSite /\ [][Type \/ TimerFires]_vars

-----------------------------------------------------------------------------
(* The site script (src/unnamed/part_000): the mobile menu *)

\* clicks dispatched in one behaviour
MaxClicks == 3

\* the overflow written whatever the menu's state
OverflowAlwaysHidden(active) == "hidden"

\* document.body.style.overflow after the menu was toggled
OverflowFor(active) == IF active THEN "hidden" ELSE ""

\* the click listener of #hamburger
HamburgerClick ==
    /\ Len(clicks) < MaxClicks
    /\ navMenu' = ~navMenu
    /\ body' = [body EXCEPT !.overflow = OverflowFor(navMenu')]
    /\ hamburger' = ~hamburger
    /\ clicks' = Append(clicks, [on |-> "hamburger", innerWidth |-> 0,
                                 found |-> FALSE])
    /\ UNCHANGED egg
    /\ SiteOnly

\* the click listener of an in-page anchor, in a window innerWidth wide;
\* target tells whether document.querySelector finds the element of its href
\* (the click log keeps it as found)
AnchorClick ==
    /\ Len(clicks) < MaxClicks
    /\ \E innerWidth \in {480, 768, 1024}, target \in BOOLEAN :
         /\ IF target /\ innerWidth <= 768
            THEN /\ navMenu' = FALSE
                 /\ body' = [body EXCEPT !.overflow = ""]
            ELSE UNCHANGED <<navMenu, body>>
         /\ clicks' = Append(clicks, [on |-> "anchor",
                                      innerWidth |-> innerWidth,
                                      found |-> target])
    /\ UNCHANGED hamburger
    /\ UNCHANGED egg
    /\ SiteOnly

SpecMenu == InitSite /\ [][HamburgerClick \/ AnchorClick]_vars

-----------------------------------------------------------------------------
(* The tab strip of the dashboard page *)

\* the .tab-btn elements of the page and their data-tab attributes; no
\* element has the id nowhere
dataTab ==
    ("btn-overview" :> "overview") @@ ("btn-genres" :> "genres")
      @@ ("btn-stray" :> "nowhere")

\* the ids of the .tab-content elements
Panels == {"overview", "genres", "people"}

\* e.target.closest(".tab-btn"): icon is a child of the genres button
closest(target) ==
    IF target \in DOMAIN dataTab THEN target
    ELSE IF target = "icon" THEN "btn-genres"
    ELSE "none"

\* the clicked button is marked without unmarking the others
ButtonsKeepOthers(active, btn) == active \cup {btn}

\* the buttons carrying the class active once the listener handled btn
ButtonsAfterClick(active, btn) == (active \ DOMAIN dataTab) \cup {btn}

\* the document's click listener, registered when the script is evaluated
TabClick ==
    /\ pc # "script"
    /\ Len(clicks) < MaxClicks
    /\ \E target \in DOMAIN dataTab \cup {"icon", "elsewhere"} :
         LET btn == closest(target)
         IN /\ clicks' = Append(clicks, [on |-> target, innerWidth |-> 0,
                                         found |-> btn # "none"])
            /\ IF btn = "none" THEN UNCHANGED tabs
               ELSE LET tabId == dataTab[btn]
                    IN /\ tabButtons' = ButtonsAfterClick(tabButtons, btn)
                       /\ tabContents' =
                            (tabContents \ Panels) \cup ({tabId} \cap Panels)
    /\ UNCHANGED <<pc, i, fetchLog, inflight, res, outcomes, loadState, data,
                   error>>
    /\ UNCHANGED <<dom, display, errorHtml, html, charts, ran, threwIn,
                   instances, reruns, prev>>
    /\ UNCHANGED <<uncaught, genreStats, egg, menu, body>>

\* the complete page, whatever its markup marks active
InitTabs ==
    /\ Evaluating
    /\ dom = ElementIds
    /\ tabButtons \in SUBSET DOMAIN dataTab
    /\ tabContents \in SUBSET Panels

SpecTabs == InitTabs /\ [][Script \/ TabClick]_vars

-----------------------------------------------------------------------------
(* Properties of the genre selection *)

\* the entries of the full distribution a payload carries
FullDistribution(d) ==
    LET g == Get(d, "genres")
    IN ObjectEntries(Or(Get(g, "genre_distribution"), Get(g, "distribution")))

\* the <<genre, count>> pairs a genre chart plots, in plotted order
PlottedGenres(c) ==
    IF c = NoChart THEN <<>>
    ELSE [k \in 1..Len(c.labels) |-> <<c.labels[k], c.data[k]>>]

DistinctCounts(e) ==
    \A a, b \in 1..Len(e) : a # b => e[a][2] # e[b][2]

\* how many entries of e have a count above that of the pair x
CountAbove(e, x) == Cardinality({j \in 1..Len(e) : e[j][2].n > x[2].n})

\* C11: for a full distribution with distinct counts, the genre chart plots
\* min(n, 10) genres; the one plotted at place r is an entry of the
\* distribution with its count unchanged, and exactly r - 1 entries of the
\* distribution have a higher count. So with more than 10 genres it plots
\* exactly the 10 highest, descending, and with 10 or fewer all of them.
GenreTopTen ==
    LET e == FullDistribution(data)
        shown == PlottedGenres(charts.genre)
    IN ("genre" \in ran /\ DistinctCounts(e)) =>
         /\ Len(shown) = (IF Len(e) > 10 THEN 10 ELSE Len(e))
         /\ \A r \in 1..Len(shown) :
              /\ shown[r] \in Range(e)
              /\ CountAbove(e, shown[r]) = r - 1

\* eleven genres with distinct counts were given and ten are plotted
ElevenGenresCut ==
    /\ pc = "done"
    /\ Len(FullDistribution(data)) = 11
    /\ DistinctCounts(FullDistribution(data))
    /\ Len(PlottedGenres(charts.genre)) = 10

\* the place of the genre of the pair x in the source mapping
KeyPlace(e, x) == CHOOSE j \in 1..Len(e) : e[j][1] = x[1]

\* C19: the plotted genres are in descending count order and, among equal
\* counts, in the order of the source mapping's keys; a genre left out has
\* no higher count than any plotted one, and when it has the same count as a
\* plotted one its key comes later in the source mapping.
GenreTiesKeepKeyOrder ==
    LET e == FullDistribution(data)
        shown == PlottedGenres(charts.genre)
        left == {x \in Range(e) : x \notin Range(shown)}
    IN "genre" \in ran =>
         /\ Len(shown) = (IF Len(e) > 10 THEN 10 ELSE Len(e))
         /\ Range(shown) \subseteq Range(e)
         /\ \A r, q \in 1..Len(shown) :
              r < q => \/ shown[r][2].n > shown[q][2].n
                       \/ /\ shown[r][2].n = shown[q][2].n
                          /\ KeyPlace(e, shown[r]) < KeyPlace(e, shown[q])
         /\ \A x \in left : \A r \in 1..Len(shown) :
              \/ x[2].n < shown[r][2].n
              \/ /\ x[2].n = shown[r][2].n
                 /\ KeyPlace(e, shown[r]) < KeyPlace(e, x)

\* a tie straddles the tenth place: the last plotted genre and a genre left
\* out have the same count
TieAcrossTenthPlace ==
    LET e == FullDistribution(data)
        shown == PlottedGenres(charts.genre)
    IN /\ pc = "done"
       /\ Len(shown) = 10
       /\ \E x \in Range(e) :
            x \notin Range(shown) /\ x[2].n = shown[10][2].n

-----------------------------------------------------------------------------
(* Properties of the person lists *)

\* the <<name, count>> pairs a person section holds, in its own order
SourcePersons(v) ==
    LET e == ObjectEntries(v)
        count(x) == IF x.t = "num" THEN x.n ELSE Get(x, "movie_count").n
    IN IF v.t = "arr"
       THEN [k \in 1..Len(e) |-> <<Get(e[k][2], "name").s, count(e[k][2])>>]
       ELSE [k \in 1..Len(e) |-> <<e[k][1], count(e[k][2])>>]

\* the <<name, count>> pairs of the cards in a container, in card order
CardPersons(c) ==
    IF c.kind = "cards"
    THEN [k \in 1..Len(c.cards) |-> <<c.cards[k].name, c.cards[k].movies.n>>]
    ELSE <<>>

\* the cards are the (at most 12) pairs of src with the highest positive
\* counts, in descending count order: the card at place r has a count that
\* at most r - 1 positive counts exceed and at least r reach
TopTwelve(cards, src) ==
    LET kept == {j \in 1..Len(src) : src[j][2] > 0}
    IN /\ Len(cards) = (IF Cardinality(kept) > 12 THEN 12
                         ELSE Cardinality(kept))
       /\ \A r \in 1..Len(cards) :
            /\ \E j \in kept : src[j] = cards[r]
            /\ Cardinality({j \in kept : src[j][2] > cards[r][2]}) <= r - 1
            /\ Cardinality({j \in kept : src[j][2] >= cards[r][2]}) >= r
       /\ \A r, q \in 1..Len(cards) : r < q => cards[r] # cards[q]

\* the section is a mapping keyed by name
IsMapping(v) == v.t = "obj"

\* the section is a sequence of records or a mapping from name to record
HoldsRecords(v) ==
    v.t = "arr" \/ (v.t = "obj" /\ \A x \in Range(ObjectValues(v)) : x.t = "obj")

\* C12: the director cards and the actor cards are each in descending count
\* order and at most 12; when more than 12 entries pass the filter, the 12
\* shown are those with the highest counts. Stated for the shapes each
\* renderer reads names and counts from (directors: a mapping keyed by name;
\* actors: a sequence of records or a mapping from name to record).
PersonListsSortedAndCut ==
    LET directorsData == Get(data, "directors")
        top == Get(Get(data, "actors"), "top_actors")
    IN /\ ("directors" \in ran /\ IsMapping(directorsData)) =>
            TopTwelve(CardPersons(html.directors),
                      SourcePersons(directorsData))
       /\ ("actors" \in ran /\ HoldsRecords(top)) =>
            TopTwelve(CardPersons(html.actors), SourcePersons(top))

\* thirteen persons with positive counts were given and twelve are shown, in
\* the directors list and in the actors list
ThirteenPersonsCut ==
    LET top == Get(Get(data, "actors"), "top_actors")
    IN /\ pc = "done"
       /\ HoldsRecords(top) /\ IsMapping(Get(data, "directors"))
       /\ Cardinality({j \in 1..Len(SourcePersons(top)) :
                          SourcePersons(top)[j][2] > 0}) = 13
       /\ Len(CardPersons(html.directors)) = 12
       /\ Len(CardPersons(html.actors)) = 12

\* the mapping keyed by name that holds the same names and counts as a
\* sequence of records
EquivalentMapping(v) ==
    LET src == SourcePersons(v)
    IN Obj([k \in 1..Len(src) |-> <<src[k][1], Num(src[k][2])>>])

\* C18 as stated: a sequence of records {name, count} is normalised to the
\* same person entries as the equivalent mapping keyed by name, for
\* directors and for actors.
SequenceAsMapping ==
    LET directorsData == Get(data, "directors")
        top == Get(Get(data, "actors"), "top_actors")
    IN /\ ("directors" \in ran /\ directorsData.t = "arr") =>
            html.directors =
              renderDirectors(EquivalentMapping(directorsData), dom,
                              Untouched).val
       /\ ("actors" \in ran /\ top.t = "arr") =>
            html.actors =
              renderActors(Obj(<< <<"top_actors", EquivalentMapping(top)>> >>),
                           dom, Untouched).val

-----------------------------------------------------------------------------
(* Properties of the ML cluster summary *)

\* a mapping with at least one entry
NonEmptyMapping(v) == v.t = "obj" /\ Len(v.e) > 0

\* the labels on the cards of the ML container, as written (HTML-escaped)
CardLabels(c) ==
    IF c.kind = "cards" THEN {c.cards[k].label : k \in 1..Len(c.cards)}
    ELSE {}

\* C13 as stated: for every payload, when taste_clusters or genre_clusters
\* holds a non-empty mapping the ML container shows cluster cards rendered
\* from it, and when neither is present or the mapping is empty it shows the
\* "not enough data" placeholder.
ClustersFromEitherField ==
    LET ml == Get(data, "ml_insights")
        taste == GetOpt(ml, "taste_clusters")
        genre == GetOpt(ml, "genre_clusters")
        from == IF NonEmptyMapping(taste) THEN taste ELSE genre
    IN (pc = "done" /\ loadState = "returned") =>
         IF NonEmptyMapping(taste) \/ NonEmptyMapping(genre)
         THEN /\ html.ml.kind = "cards"
              /\ CardLabels(html.ml)
                   \subseteq {escapeHTML(k) : k \in Range(ObjectKeys(from))}
         ELSE html.ml.kind = "placeholder"

-----------------------------------------------------------------------------
(* Properties of the runtime histogram and of the chart registry *)

\* the mapping d with the member name set to v
WithMember(d, name, v) ==
    IF \E k \in 1..Len(d.e) : d.e[k][1] = name
    THEN Obj([k \in 1..Len(d.e) |->
                IF d.e[k][1] = name THEN <<name, v>> ELSE d.e[k]])
    ELSE Obj(Append(d.e, <<name, v>>))

\* the payload d with a valid runtime histogram in place of its own
WithValidHistogram(d) ==
    WithMember(d, "graph_data", JsonParse(GoodSection("graph_data")))

\* the histogram is absent, or lacks bins, or lacks counts
LacksBinsOrCounts(h) ==
    \/ IsNullish(h)
    \/ Get(h, "bins") = Undef
    \/ Get(h, "counts") = Undef

\* the containers after the current call, had the payload been d
ContainersFor(d) ==
    [stats |-> renderStats(d, dom, prev.html.stats).val,
     directors |-> renderDirectors(DirectorsArg(d), dom,
                                   prev.html.directors).val,
     ml |-> IF Truthy(Get(d, "ml_insights"))
            THEN renderMLInsights(Get(d, "ml_insights"), dom,
                                  prev.html.ml).val
            ELSE prev.html.ml,
     actors |-> IF Truthy(Get(d, "actors"))
                THEN renderActors(Get(d, "actors"), dom, prev.html.actors).val
                ELSE prev.html.actors]

\* C14: when the runtime histogram is absent or lacks bins or counts,
\* renderRuntimeChart leaves the registry slot and the chart instances as
\* they were, raises nothing, and every other section ends up exactly as it
\* does for the same payload with a valid histogram.
HistogramSkipLeavesRest ==
    LET twin == WithValidHistogram(data)
    IN (loadState = "returned" /\ data # Undef
          /\ LacksBinsOrCounts(RuntimeArg(data))) =>
         /\ threwIn # "runtime"
         /\ "runtime" \in ran =>
              /\ charts.runtime = prev.charts.runtime
              /\ instances.runtime = prev.instances.runtime
         /\ (pc = "done" /\ threwIn = "none") =>
              /\ html = ContainersFor(twin)
              /\ charts.genre =
                   createGenreChart(GenresArg(twin), dom,
                                    prev.charts.genre).val
              /\ charts.decade =
                   createDecadeChart(DecadesArg(twin), dom,
                                     prev.charts.decade).val
              /\ instances.genre.created - prev.instances.genre.created =
                   (IF createGenreChart(GenresArg(twin), dom, NoChart).made
                    THEN 1 ELSE 0)
              /\ instances.decade.created - prev.instances.decade.created =
                   (IF createDecadeChart(DecadesArg(twin), dom, NoChart).made
                    THEN 1 ELSE 0)

\* bins were given without counts and the pass has ended with every other
\* section rendered
BinsWithoutCountsSkipped ==
    /\ pc = "done"
    /\ RuntimeArg(data) # Undef
    /\ Get(RuntimeArg(data), "bins") # Undef
    /\ Get(RuntimeArg(data), "counts") = Undef
    /\ html.actors.kind = "cards"
    /\ charts.runtime = NoChart

\* C15 as stated: when bins or counts is an empty sequence,
\* renderRuntimeChart skips: it creates no chart and leaves the registry
\* slot as it was.
EmptyHistogramSkipped ==
    LET h == RuntimeArg(data)
    IN (loadState = "returned" /\ data # Undef /\ "runtime" \in ran
          /\ ~IsNullish(h)
          /\ (Get(h, "bins") = Arr(<<>>) \/ Get(h, "counts") = Arr(<<>>))) =>
         /\ charts.runtime = prev.charts.runtime
         /\ instances.runtime = prev.instances.runtime

\* chart instances of a widget created and not destroyed
Live(c) == c.created - c.destroyed

Widgets == {"genre", "decade", "runtime"}

\* C16: a call of initDashboard with the payload of the call before it
\* leaves the page as that call left it: the same views, the same container
\* contents, the same charts, and as many live chart instances per widget.
RenderIdempotent ==
    (pc = "done" /\ reruns >= 1 /\ data = prev.data) =>
        /\ display = prev.display
        /\ errorHtml = prev.errorHtml
        /\ html = prev.html
        /\ charts = prev.charts
        /\ \A w \in Widgets :
             Live(instances[w]) = Live(prev.instances[w])

\* the full document was rendered twice: each chart was created twice
RenderedTwice ==
    /\ pc = "done"
    /\ reruns = 1
    /\ data = prev.data
    /\ data = JsonParse(FullDocument)
    /\ \A w \in Widgets : instances[w].created = 2

\* C17: for each chart widget, over any sequence of calls with any payloads,
\* a new instance is created only once the previous one is destroyed: the
\* widget never has two undestroyed instances, and the one it has is the one
\* in its registry slot.
ChartLifecycle ==
    \A w \in Widgets :
        /\ instances[w].peak <= 1
        /\ Live(instances[w]) = (IF charts[w] = NoChart THEN 0 ELSE 1)

\* a widget is on its third instance, the first two destroyed
ThirdInstance ==
    \E w \in Widgets :
        instances[w].created = 3 /\ instances[w].destroyed = 2

-----------------------------------------------------------------------------
(* Properties of the payload *)

-----------------------------------------------------------------------------
(* Properties of the displayed percentages and of the views *)

\* C21 as stated: every percentage shown on a cluster card lies between 0
\* and 100, whatever percentage the payload holds.
PercentagesClamped ==
    html.ml.kind = "cards" =>
        \A k \in 1..Len(html.ml.cards) :
            /\ html.ml.cards[k].percentage.n >= 0
            /\ html.ml.cards[k].percentage.n <= 100

\* the views that are visible: the loading view unless hidden, the content
\* and the error view once shown
VisibleViews ==
    (IF display.loading # "none" THEN {"loading"} ELSE {})
      \cup (IF display.content = "block" THEN {"content"} ELSE {})
      \cup (IF display.error = "block" THEN {"error"} ELSE {})

\* C22 as stated: once initDashboard has started, on the complete page, at
\* most one of the loading, content and error views is visible, and the
\* error view is visible only when loadData failed.
ViewsExclusive ==
    (pc \notin {"script", "ready"} /\ dom = ElementIds) =>
        /\ Cardinality(VisibleViews) <= 1
        /\ "error" \in VisibleViews => loadState = "threw"

-----------------------------------------------------------------------------
(* Properties of the chart registry across calls *)

\* the section a chart widget is built from is missing from the payload d
SectionMissing(w, d) ==
    CASE w = "genre" -> Get(d, "genres") = Undef
      [] w = "decade" -> Get(d, "decades") = Undef
      [] w = "runtime" -> LacksBinsOrCounts(RuntimeArg(d))

\* C23 as stated: once the chart renderer of a widget has returned for a
\* payload whose section is missing, the widget has no live chart: one left
\* by an earlier payload has been destroyed.
NoStaleChart ==
    (loadState = "returned" /\ data # Undef) =>
        \A w \in Widgets :
            (w \in ran /\ SectionMissing(w, data)) =>
                Live(instances[w]) = 0

-----------------------------------------------------------------------------
(* Properties of the genre shapes *)

\* the shapes of a genres section that hold a non-empty mapping, as places
\* in GenreShapes
FilledShapes(g) ==
    {k \in 1..Len(GenreShapes) : NonEmptyMapping(Get(g, GenreShapes[k]))}

\* C24 as stated: the genre chart is built from the first non-empty mapping
\* among top_10_genres, genre_distribution and distribution, and is skipped
\* only when none of the three holds a non-empty mapping.
GenreFirstNonEmptyShape ==
    LET g == Get(data, "genres")
        filled == FilledShapes(g)
        first == CHOOSE k \in filled : \A j \in filled : k <= j
    IN ("genre" \in ran /\ loadState = "returned") =>
         IF filled = {} THEN charts.genre = NoChart
         ELSE /\ charts.genre # NoChart
              /\ Range(charts.genre.labels)
                   = Range(ObjectKeys(Get(g, GenreShapes[first])))

-----------------------------------------------------------------------------
(* Properties of the script's top level *)

\* C25 as stated: evaluating the dashboard script raises no error, and once
\* the genre chart is rendered with a non-empty label list the genre-stats
\* element holds one chip for each of the first six labels, in chart order,
\* with that genre's count.
GenreChipsFilled ==
    /\ uncaught = <<>>
    /\ charts.genre # NoChart =>
         genreStats = [kind |-> "genre-chips",
                       items |-> chips(charts.genre.labels,
                                       charts.genre.data)]
-----------------------------------------------------------------------------
(* Properties of the easter egg *)

\* the last ten of the first n keys pressed are the Konami code
CodeEndsAt(n) == n >= 10 /\ SubSeq(pressed, n - 9, n) = konamiCode

\* C26 as stated: the easter egg is activated at a keydown exactly when the
\* ten most recent keys are the Konami code, whatever was pressed before.
KonamiRecognised ==
    \A n \in 1..Len(pressed) : (n \in fired) <=> CodeEndsAt(n)

\* C27 as stated: once the egg was activated and every pending timer has
\* fired, the body's background is what it was before the first activation,
\* its animation is cleared and no injected style element remains.
EggRestored ==
    (fired # {} /\ timers = <<>>) =>
        /\ body.background = NoBody.background
        /\ body.animation = ""
        /\ styles = {}
-----------------------------------------------------------------------------
(* Properties of the mobile menu *)

\* C28 as stated: after any hamburger and anchor clicks, the hamburger button
\* carries the class active exactly when the nav menu does.
IconAgreesWithMenu == hamburger <=> navMenu

\* C29: after any hamburger and anchor clicks, at any window width, the
\* body's overflow is hidden exactly when the nav menu carries the class
\* active.
ScrollLockedWithMenu == (body.overflow = "hidden") <=> navMenu

\* the menu was opened by the hamburger and closed again by an anchor click
\* in a narrow window
MenuClosedByAnchor ==
    /\ Len(clicks) = 2
    /\ clicks[1].on = "hamburger"
    /\ clicks[2] = [on |-> "anchor", innerWidth |-> 768, found |-> TRUE]
    /\ ~navMenu
    /\ body.overflow = ""
-----------------------------------------------------------------------------
(* Properties of the tab strip *)

\* the button the latest click on a tab button went to
LastTabClicked ==
    LET hits == {k \in 1..Len(clicks) : clicks[k].found}
        last == CHOOSE k \in hits : \A j \in hits : j <= k
    IN closest(clicks[last].on)

\* C30: once a tab button was clicked, the button clicked last is the only
\* one carrying the class active and the only tab content carrying it is the
\* one whose id is that button's data-tab, if there is one; a click outside
\* every tab button changes neither.
TabsFollowLastClick ==
    /\ []((\E k \in 1..Len(clicks) : clicks[k].found) =>
            /\ tabButtons = {LastTabClicked}
            /\ tabContents = {dataTab[LastTabClicked]} \cap Panels)
    /\ [][(clicks' # clicks /\ ~clicks'[Len(clicks')].found) =>
            UNCHANGED tabs]_vars

\* the overview tab was chosen, then the genres tab through its icon
TabSwitched ==
    /\ Len(clicks) = 2
    /\ clicks[1].on = "btn-overview"
    /\ clicks[2].on = "icon"
    /\ tabButtons = {"btn-genres"}
    /\ tabContents = {"genres"}
====
